---- MODULE Spec2Model ----
(***************************************************************************)
(* A model of the rres container decoder of rres_rs (src/src/lib.rs):      *)
(* the header reader, the chunk descriptor reader, the payload decoder     *)
(* from_info_and_data, the scan of load_resource_chunk, load_central_dir,  *)
(* get_resource_id and compute_crc32, over byte-exact container files.     *)
(*                                                                         *)
(* A u32 is kept as a pair <<hi, lo>> of 16-bit limbs (value hi*65536+lo), *)
(* so that 32-bit values, their wrap-around and the CRC keep their width.  *)
(***************************************************************************)
EXTENDS Integers, Sequences, FiniteSets, TLC

\* ------------------------------------------------------------------ bounds

\* Most filler chunks around the chunk under study in a container.
MaxFill == 2
\* Most properties of a plain chunk.
MaxProps == 1
\* Most bytes of a raw tail.
MaxTail == 1
\* Most entries of a central directory.
MaxEntries == 2
\* The longest byte sequence over CrcBytes that compute_crc32 is applied to.
MaxCrcLen == 3

\* ------------------------------------------------------- 32-bit arithmetic

Byte == 0..255

RECURSIVE XorBits(_, _, _)
\* Bitwise exclusive or of the low n bits of a and b (the ^ of lib.rs:523).
XorBits(a, b, n) ==
    IF n = 0 THEN 0
    ELSE (((a % 2) + (b % 2)) % 2) + 2 * XorBits(a \div 2, b \div 2, n - 1)

\* u32 ^ u32.
Xor32(a, b) == <<XorBits(a[1], b[1], 16), XorBits(a[2], b[2], 16)>>

\* !x on u32.
Not32(a) == <<65535 - a[1], 65535 - a[2]>>

\* x >> 8 on u32.
Shr8(a) == <<a[1] \div 256, ((a[1] % 256) * 256) + (a[2] \div 256)>>

\* A small natural as a u32.
U32(n) == <<n \div 65536, n % 65536>>

\* a - b on u32: wrapping_sub, and whether it borrowed (overflowed).
SubWrap(a, b) ==
    LET lo == a[2] - b[2]
        bl == IF lo < 0 THEN 1 ELSE 0
        hi == a[1] - b[1] - bl
    IN  [val |-> <<(hi + 65536) % 65536, (lo + 65536) % 65536>>,
         overflow |-> hi < 0]

\* a * 4 on u32: wrapping_mul, and whether it overflowed.
Mul4Wrap(a) ==
    LET lo == a[2] * 4
        hi == (a[1] * 4) + (lo \div 65536)
    IN  [val |-> <<hi % 65536, lo % 65536>>, overflow |-> hi >= 65536]

\* a < b on u32.
Lt32(a, b) == a[1] < b[1] \/ (a[1] = b[1] /\ a[2] < b[2])

\* Every length above Huge is longer than any file of the model; `as usize`
\* and `as i64` of a u32 keep the exact value below it and saturate above it.
Huge == 1073741824
AsUsize(a) == IF a[1] >= 16384 THEN Huge ELSE (a[1] * 65536) + a[2]

\* ------------------------------------------------------------ compute_crc32

CRC_TABLE == <<
    <<0, 0>>, <<30471, 12438>>, <<60942, 24876>>, <<39177, 20922>>,
    <<1901, 50201>>, <<28778, 62607>>, <<59747, 42293>>, <<40548, 38307>>,
    <<3803, 34866>>, <<31196, 47268>>, <<57557, 59678>>, <<38866, 55688>>,
    <<2486, 19499>>, <<32433, 31933>>, <<59320, 11527>>, <<37055, 7569>>,
    <<7607, 4196>>, <<27312, 8434>>, <<62393, 29000>>, <<33982, 16862>>,
    <<6874, 54397>>, <<28125, 58603>>, <<62676, 46417>>, <<33747, 34247>>,
    <<4972, 38998>>, <<25707, 43200>>, <<64866, 63866>>, <<35429, 51692>>,
    <<5121, 23631>>, <<25350, 27865>>, <<64015, 15715>>, <<36104, 3573>>,
    <<15214, 8392>>, <<19561, 4190>>, <<54624, 16868>>, <<41575, 29042>>,
    <<15363, 58577>>, <<19204, 54343>>, <<53773, 34301>>, <<42250, 46443>>,
    <<13749, 43258>>, <<17074, 39020>>, <<56251, 51670>>, <<44220, 63808>>,
    <<13016, 27875>>, <<17887, 23669>>, <<56534, 3535>>, <<43985, 15705>>,
    <<9945, 12460>>, <<20958, 58>>, <<51415, 20864>>, <<49104, 24854>>,
    <<8628, 62645>>, <<22195, 50211>>, <<53178, 38297>>, <<47293, 42255>>,
    <<10242, 47262>>, <<24325, 34824>>, <<50700, 55730>>, <<45323, 59684>>,
    <<12143, 31879>>, <<22632, 19473>>, <<49505, 7595>>, <<46694, 11581>>,
    <<30428, 16784>>, <<475, 28934>>, <<39122, 8380>>, <<61397, 4138>>,
    <<29105, 34185>>, <<1718, 46367>>, <<40895, 58533>>, <<59576, 54323>>,
    <<30727, 51618>>, <<3840, 63796>>, <<38409, 43150>>, <<57614, 38936>>,
    <<32618, 3515>>, <<2157, 15661>>, <<37220, 27799>>, <<58979, 23553>>,
    <<27499, 20980>>, <<7276, 24930>>, <<34149, 12504>>, <<62050, 78>>,
    <<27654, 38381>>, <<6913, 42363>>, <<33288, 62657>>, <<62735, 50263>>,
    <<26032, 55750>>, <<4791, 59728>>, <<35774, 47338>>, <<64697, 34940>>,
    <<25309, 7647>>, <<5594, 11593>>, <<36051, 31987>>, <<64468, 19557>>,
    <<19890, 24920>>, <<15029, 20942>>, <<41916, 116>>, <<54459, 12514>>,
    <<19167, 42305>>, <<15832, 38359>>, <<42193, 50285>>, <<54230, 62715>>,
    <<17257, 59754>>, <<13422, 55804>>, <<44391, 34886>>, <<55904, 47312>>,
    <<17412, 11635>>, <<13059, 7653>>, <<43530, 19551>>, <<56589, 31945>>,
    <<20485, 28988>>, <<9986, 16810>>, <<48651, 4112>>, <<51468, 8326>>,
    <<22376, 46373>>, <<8303, 34227>>, <<47462, 54281>>, <<52833, 58527>>,
    <<24286, 63758>>, <<10713, 51608>>, <<45264, 38946>>, <<51159, 43188>>,
    <<22963, 15639>>, <<11956, 3457>>, <<47037, 23611>>, <<49338, 27821>>,
    <<60856, 33568>>, <<39615, 46006>>, <<950, 57868>>, <<29873, 53914>>,
    <<60117, 18233>>, <<40402, 30639>>, <<1243, 9749>>, <<29660, 5763>>,
    <<58211, 2834>>, <<37988, 15236>>, <<3437, 27198>>, <<31338, 23208>>,
    <<58382, 53003>>, <<37641, 65437>>, <<2560, 44583>>, <<32007, 40625>>,
    <<61455, 37700>>, <<34568, 41938>>, <<7681, 62056>>, <<26886, 49918>>,
    <<63330, 22365>>, <<32869, 26571>>, <<6508, 13937>>, <<28267, 1767>>,
    <<65236, 7030>>, <<35283, 11232>>, <<4314, 31322>>, <<26589, 19148>>,
    <<63929, 57199>>, <<36542, 61433>>, <<6071, 48707>>, <<24752, 36565>>,
    <<54998, 41960>>, <<41425, 37758>>, <<14552, 49860>>, <<20447, 62034>>,
    <<53691, 26609>>, <<42684, 22375>>, <<16309, 1757>>, <<18610, 13899>>,
    <<55309, 11226>>, <<44810, 6988>>, <<13827, 19190>>, <<16644, 31328>>,
    <<57184, 61379>>, <<43111, 57173>>, <<12654, 36591>>, <<18025, 48761>>,
    <<52065, 45964>>, <<48230, 33562>>, <<9583, 53920>>, <<21096, 57910>>,
    <<52236, 30613>>, <<47883, 18179>>, <<8706, 5817>>, <<21765, 9775>>,
    <<50618, 15294>>, <<45757, 2856>>, <<11188, 23186>>, <<23731, 27140>>,
    <<49879, 65447>>, <<46544, 53041>>, <<11481, 40587>>, <<23518, 44573>>,
    <<39780, 49840>>, <<60515, 61990>>, <<30058, 41884>>, <<621, 37642>>,
    <<39945, 1705>>, <<60174, 13887>>, <<29191, 26501>>, <<1280, 22291>>,
    <<38335, 19074>>, <<58040, 31252>>, <<31665, 11182>>, <<3254, 6968>>,
    <<37586, 36507>>, <<58837, 48653>>, <<31964, 61367>>, <<3035, 57121>>,
    <<34515, 53972>>, <<61908, 57922>>, <<26845, 46072>>, <<8154, 33646>>,
    <<33214, 5837>>, <<63161, 9819>>, <<28592, 30689>>, <<6327, 18295>>,
    <<34824, 23270>>, <<65295, 27248>>, <<26118, 15306>>, <<4353, 2908>>,
    <<36709, 40703>>, <<63586, 44649>>, <<24939, 65491>>, <<5740, 53061>>,
    <<40970, 57976>>, <<55053, 53998>>, <<19972, 33620>>, <<14595, 46018>>,
    <<42855, 9825>>, <<53344, 5879>>, <<18793, 18253>>, <<15982, 30683>>,
    <<44753, 27210>>, <<55766, 23260>>, <<16607, 2918>>, <<14296, 15344>>,
    <<43452, 44627>>, <<57019, 40645>>, <<18354, 53119>>, <<12469, 65513>>,
    <<48573, 61980>>, <<51898, 49802>>, <<21427, 37680>>, <<9396, 41894>>,
    <<47824, 13829>>, <<52695, 1683>>, <<21726, 22313>>, <<9177, 26559>>,
    <<45926, 31278>>, <<50273, 19128>>, <<23912, 6914>>, <<10863, 11156>>,
    <<46091, 48695>>, <<49932, 36513>>, <<23045, 57115>>, <<11522, 61325>>
>>

\* The mutant of the turn that indexes the table by the byte alone.
crc_step_byte_index(crc, byte) ==
    Xor32(Shr8(crc), CRC_TABLE[byte + 1])

\* One turn of the loop of compute_crc32 (line 523).
crc_step(crc, byte) ==
    Xor32(Shr8(crc), CRC_TABLE[XorBits(byte, crc[2] % 256, 8) + 1])

RECURSIVE crc_loop(_, _, _)
\* The loop of compute_crc32 from byte k of data on, crc being the running
\* value. (crc[1] < 0 is never true: it has crc evaluated before the next
\* turn, which keeps the evaluation shallow.)
crc_loop(data, k, crc) ==
    IF k > Len(data) \/ crc[1] < 0 THEN crc
    ELSE crc_loop(data, k + 1, crc_step(crc, data[k]))

compute_crc32(data) == Not32(crc_loop(data, 1, Not32(<<0, 0>>)))


\* ------------------------------------------------------------------ results

Ok(v) == [kind |-> "Ok", err |-> "none", val |-> v]
\* An error returned to the caller (Err(Box<dyn Error>)).
Err(e) == [kind |-> "Err", err |-> e, val |-> <<>>]
\* The call does not return: a panic (unwrap on Err, index out of bounds,
\* arithmetic overflow with overflow checks on).
Panic(why) == [kind |-> "Panic", err |-> why, val |-> <<>>]

\* --------------------------------------------------------- byteorder reads

\* A read of n bytes at position pos of stream s (a file or a cursor):
\* the bytes and the new position, or the UnexpectedEof error of read_exact.
read_exact(s, pos, n) ==
    IF pos + n <= Len(s)
    THEN [ok |-> TRUE, val |-> SubSeq(s, pos + 1, pos + n), pos |-> pos + n]
    ELSE [ok |-> FALSE, val |-> <<>>, pos |-> pos]

\* u16::from_ne_bytes / u32::from_ne_bytes under the byte order of the build.
ne_u16(b, endian) ==
    IF endian = "le" THEN b[1] + (256 * b[2]) ELSE b[2] + (256 * b[1])
ne_u32(b, endian) ==
    IF endian = "le"
    THEN <<b[3] + (256 * b[4]), b[1] + (256 * b[2])>>
    ELSE <<b[2] + (256 * b[1]), b[4] + (256 * b[3])>>

\* ReadBytesExt::read_u32::<NativeEndian> at pos of s.
read_u32(s, pos, endian) ==
    LET r == read_exact(s, pos, 4)
    IN  IF r.ok THEN [ok |-> TRUE, val |-> ne_u32(r.val, endian), pos |-> r.pos]
        ELSE [ok |-> FALSE, val |-> <<0, 0>>, pos |-> pos]

\* ------------------------------------------------------------- FileHeader

\* FileHeader::from_buf_reader: 4 + 2 + 2 + 4 + 4 bytes read in order, each
\* read returning its error with `?`; the reads succeed together exactly when
\* 16 bytes are left.
FileHeader_from_buf_reader(s, pos, endian) ==
    LET r == read_exact(s, pos, 16)
        b == r.val
    IN  IF ~r.ok THEN Err("Io")
        ELSE Ok([file_id      |-> SubSeq(b, 1, 4),
                 file_version |-> ne_u16(SubSeq(b, 5, 6), endian),
                 chunk_count  |-> ne_u16(SubSeq(b, 7, 8), endian),
                 cd_offset    |-> ne_u32(SubSeq(b, 9, 12), endian),
                 reserved     |-> ne_u32(SubSeq(b, 13, 16), endian)])

\* The mutant of verify that does not look at the version.
verify_magic_only(h) == h.file_id = <<114, 114, 101, 115>>

\* FileHeader::verify: the magic is "rres" and the version is 100.
verify(h) ==
    /\ h.file_id[1] = 114
    /\ h.file_id[2] = 114
    /\ h.file_id[3] = 101
    /\ h.file_id[4] = 115
    /\ h.file_version = 100

\* ------------------------------------------------------ ResourceChunkInfo

\* ResourceChunkInfo::from_buf_reader: 4 + 4 + 1 + 1 + 2 + 4 + 4 + 4 + 4 + 4 = 32
\* bytes read in order, each read returning its error with `?`.
ResourceChunkInfo_from_buf_reader(s, pos, endian) ==
    LET r == read_exact(s, pos, 32)
        b == r.val
    IN  IF ~r.ok THEN Err("Io")
        ELSE Ok([chunk_type       |-> SubSeq(b, 1, 4),
                 chunk_id         |-> ne_u32(SubSeq(b, 5, 8), endian),
                 compression_type |-> b[9],
                 cipher_type      |-> b[10],
                 flags            |-> ne_u16(SubSeq(b, 11, 12), endian),
                 packed_size      |-> ne_u32(SubSeq(b, 13, 16), endian),
                 base_size        |-> ne_u32(SubSeq(b, 17, 20), endian),
                 next_offset      |-> ne_u32(SubSeq(b, 21, 24), endian),
                 reserved         |-> ne_u32(SubSeq(b, 25, 28), endian),
                 crc32            |-> ne_u32(SubSeq(b, 29, 32), endian)])

\* impl From<&[u8; 4]> for ResourceDataType.
ResourceDataType_from(value) ==
    CASE value = <<78, 85, 76, 76>> -> "Null"
      [] value = <<82, 65, 87, 68>> -> "Raw"
      [] value = <<84, 69, 88, 84>> -> "Text"
      [] value = <<73, 77, 71, 69>> -> "Image"
      [] value = <<87, 65, 86, 69>> -> "Wave"
      [] value = <<86, 82, 84, 88>> -> "Vertex"
      [] value = <<70, 78, 84, 71>> -> "FontGlyphs"
      [] value = <<76, 73, 78, 75>> -> "Link"
      [] value = <<67, 68, 73, 82>> -> "Directory"
      [] OTHER -> "Null"

\* ResourceChunkInfo::is_chunk_type.
is_chunk_type(info, data_type) == ResourceDataType_from(info.chunk_type) = data_type

\* The mutant of is_compressed_or_encrypted that forgets the cipher.
is_compressed_only(info) == info.compression_type # 0

\* ResourceChunkInfo::is_compressed_or_encrypted (CompressionType::None = 0,
\* EncryptionType::None = 0).
is_compressed_or_encrypted(info) ==
    info.compression_type # 0 \/ info.cipher_type # 0

\* ------------------------------------------------------ ResourceChunkData

RECURSIVE read_props(_, _, _)
\* The loop of lines 176-178: props[i] for i in 0..n, read at offset 4 + 4*i
\* of the cursor (n is known to fit the data).
read_props(data, n, endian) ==
    IF n = 0 THEN <<>>
    ELSE Append(read_props(data, n - 1, endian),
                ne_u32(SubSeq(data, (4 * n) + 1, (4 * n) + 4), endian))

\* raw_size = base_size - 4 - prop_count * 4 on u32: the wrapped value, and
\* whether any of the three operations overflowed.
raw_size_of(base_size, prop_count) ==
    LET s1 == SubWrap(base_size, U32(4))
        m  == Mul4Wrap(prop_count)
        s2 == SubWrap(s1.val, m.val)
    IN  [val |-> s2.val, overflow |-> s1.overflow \/ m.overflow \/ s2.overflow]

\* vec![x; n]: an allocation of a gigabyte or more succeeds or aborts the
\* process, as the memory of the machine decides (big_alloc); smaller ones
\* succeed.
alloc_ok(n, env) == n < Huge \/ env.big_alloc

\* The mutant of the plain branch that reads the raw tail right after the
\* property count (it does not advance over the properties).
plain_branch_tail_at_4(info, data, endian, env) ==
    IF Len(data) < 4 THEN Panic("unwrap")
    ELSE
      LET prop_count == ne_u32(SubSeq(data, 1, 4), endian)
          n == AsUsize(prop_count)
      IN  IF n > (Len(data) - 4) \div 4 THEN Panic("unwrap")
          ELSE
            LET rs == raw_size_of(info.base_size, prop_count)
                raw == read_exact(data, 4, AsUsize(rs.val))
            IN  IF rs.overflow /\ env.overflow_checks THEN Panic("overflow")
                ELSE IF ~raw.ok THEN Err("Io")
                ELSE Ok([prop_count |-> prop_count,
                         props |-> read_props(data, n, endian),
                         raw_data |-> raw.val])

\* The branch of from_info_and_data for a chunk that is neither compressed
\* nor encrypted (lines 171-190). env.overflow_checks is the build's setting:
\* with it an overflowing subtraction panics, without it it wraps.
plain_branch(info, data, endian, env) ==
    IF Len(data) < 4 THEN Panic("unwrap")
    ELSE
      LET prop_count == ne_u32(SubSeq(data, 1, 4), endian)
          n == AsUsize(prop_count)
      IN  IF ~alloc_ok(n, env) THEN Panic("alloc")
          ELSE IF n > (Len(data) - 4) \div 4 THEN Panic("unwrap")
          ELSE
            LET props == read_props(data, n, endian)
                rs == raw_size_of(info.base_size, prop_count)
                raw == read_exact(data, 4 + (4 * n), AsUsize(rs.val))
            IN  IF rs.overflow /\ env.overflow_checks THEN Panic("overflow")
                ELSE IF ~alloc_ok(AsUsize(rs.val), env) THEN Panic("alloc")
                ELSE IF ~raw.ok THEN Err("Io")
                ELSE Ok([prop_count |-> prop_count, props |-> props,
                         raw_data |-> raw.val])

\* The branch for a compressed or encrypted chunk (lines 192-201).
packed_branch(info, data, env) ==
    LET raw == read_exact(data, 0, AsUsize(info.packed_size))
    IN  IF ~alloc_ok(AsUsize(info.packed_size), env) THEN Panic("alloc")
        ELSE IF ~raw.ok THEN Err("Io")
        ELSE Ok([prop_count |-> <<0, 0>>, props |-> <<>>, raw_data |-> raw.val])

\* The mutant of from_info_and_data that checks the checksum before the type.
from_info_and_data_crc_first(info, data, endian, env) ==
    IF compute_crc32(data) # info.crc32 THEN Err("Crc32VerificationFailed")
    ELSE IF ResourceDataType_from(info.chunk_type) = "Null" THEN Err("NullResource")
    ELSE IF ~is_compressed_or_encrypted(info)
         THEN plain_branch(info, data, endian, env)
         ELSE packed_branch(info, data, env)

\* The mutant of from_info_and_data that does not verify the checksum.
from_info_and_data_no_crc(info, data, endian, env) ==
    IF ResourceDataType_from(info.chunk_type) = "Null" THEN Err("NullResource")
    ELSE IF ~is_compressed_or_encrypted(info)
         THEN plain_branch(info, data, endian, env)
         ELSE packed_branch(info, data, env)

\* ResourceChunkData::from_info_and_data.
from_info_and_data(info, data, endian, env) ==
    LET crc32 == compute_crc32(data)
        data_type == ResourceDataType_from(info.chunk_type)
    IN  IF data_type = "Null" THEN Err("NullResource")
        ELSE IF crc32 # info.crc32 THEN Err("Crc32VerificationFailed")
        ELSE IF ~is_compressed_or_encrypted(info)
             THEN plain_branch(info, data, endian, env)
             ELSE packed_branch(info, data, env)

\* ------------------------------------------------------------- CentralDir

\* impl Display for DirEntry: the name bytes before the first NUL, each byte
\* as the char of the same code point.
RECURSIVE take_while_not_nul(_)
take_while_not_nul(name) ==
    IF name = <<>> \/ Head(name) = 0 THEN <<>>
    ELSE <<Head(name)>> \o take_while_not_nul(Tail(name))

to_string(entry) == take_while_not_nul(entry.file_name)

RECURSIVE first_match(_, _, _)
\* The loop of get_resource_id from entry k on: the id of the first entry
\* whose to_string() equals filename, or the initial id 0.
first_match(entries, k, filename) ==
    IF k > Len(entries) THEN <<0, 0>>
    ELSE IF to_string(entries[k]) = filename THEN entries[k].resource_id
    ELSE first_match(entries, k + 1, filename)

RECURSIVE first_prefix_match(_, _, _)
first_prefix_match(entries, k, filename) ==
    IF k > Len(entries) THEN <<0, 0>>
    ELSE IF /\ Len(to_string(entries[k])) <= Len(filename)
            /\ to_string(entries[k]) = SubSeq(filename, 1, Len(to_string(entries[k])))
         THEN entries[k].resource_id
    ELSE first_prefix_match(entries, k + 1, filename)

\* The mutant of get_resource_id that takes the first entry whose name the
\* file name starts with.
get_resource_id_prefix(dir, filename) == first_prefix_match(dir.entries, 1, filename)

\* CentralDir::get_resource_id: a u32, 0 when no entry matches.
get_resource_id(dir, filename) == first_match(dir.entries, 1, filename)

RECURSIVE read_entries(_, _, _, _, _)
\* The loop of load_central_dir over the entries (lines 460-470): n entries
\* read from position pos of the raw data; the read error of the first read
\* that runs out of data (the seek over the reserved bytes never fails, the
\* read after it does), or the abort of a name buffer that is not given.
read_entries(raw, pos, n, endian, env) ==
    IF n = 0 THEN Ok(<<>>)
    ELSE
      LET hd == read_exact(raw, pos, 16)
          sz == ne_u32(SubSeq(hd.val, 13, 16), endian)
          nm == read_exact(raw, pos + 16, AsUsize(sz))
          rest == read_entries(raw, nm.pos, n - 1, endian, env)
      IN  IF ~hd.ok THEN Err("Io")
          ELSE IF ~alloc_ok(AsUsize(sz), env) THEN Panic("alloc")
          ELSE IF ~nm.ok THEN Err("Io")
          ELSE IF rest.kind # "Ok" THEN rest
          ELSE Ok(<<[resource_id    |-> ne_u32(SubSeq(hd.val, 1, 4), endian),
                     global_offset  |-> ne_u32(SubSeq(hd.val, 5, 8), endian),
                     reserved       |-> <<0, 0>>,
                     file_name_size |-> sz,
                     file_name      |-> nm.val]>> \o rest.val)

\* The mutant of the entry parsing that takes a missing props[0] for 0.
parse_central_dir_count_or_zero(chunk_data, endian, env) ==
    IF Len(chunk_data.props) = 0
    THEN Ok([entry_count |-> <<0, 0>>, entries |-> <<>>])
    ELSE LET es == read_entries(chunk_data.raw_data, 0,
                                AsUsize(chunk_data.props[1]), endian, env)
         IN  IF es.kind # "Ok" THEN es
             ELSE Ok([entry_count |-> chunk_data.props[1], entries |-> es.val])

\* load_central_dir after the decode (lines 456-475): props[0] is the entry
\* count (an index out of bounds when there is no property), the vector of
\* entry_count entries is allocated, then the entries are read. An entry
\* takes 16 bytes or more, so a count above the length of the raw data ends
\* in the read error of some entry.
parse_central_dir(chunk_data, endian, env) ==
    IF Len(chunk_data.props) = 0 THEN Panic("index")
    ELSE
      LET entry_count == chunk_data.props[1]
          n == AsUsize(entry_count)
      IN  IF ~alloc_ok(n, env) THEN Panic("alloc")
          ELSE IF n > Len(chunk_data.raw_data) THEN Err("Io")
          ELSE LET es == read_entries(chunk_data.raw_data, 0, n, endian, env)
               IN  IF es.kind # "Ok" THEN es
                   ELSE Ok([entry_count |-> entry_count, entries |-> es.val])

\* ------------------------------------------------- synthesized containers
\* The inverse of the readers above, used to build the files the operations
\* run on: what a writer of the format lays down for the readers to find.

to_ne_u16(v, endian) ==
    IF endian = "le" THEN <<v % 256, v \div 256>> ELSE <<v \div 256, v % 256>>
to_ne_u32(u, endian) ==
    IF endian = "le"
    THEN <<u[2] % 256, u[2] \div 256, u[1] % 256, u[1] \div 256>>
    ELSE <<u[1] \div 256, u[1] % 256, u[2] \div 256, u[2] % 256>>

RECURSIVE FlattenTo(_, _)
FlattenTo(ss, n) == IF n = 0 THEN <<>> ELSE FlattenTo(ss, n - 1) \o ss[n]
\* The concatenation of the sequences of ss.
Flatten(ss) == FlattenTo(ss, Len(ss))

RECURSIVE SeqsUpTo(_, _)
\* The sequences over S of length at most n.
SeqsUpTo(S, n) ==
    IF n = 0 THEN {<<>>}
    ELSE LET shorter == SeqsUpTo(S, n - 1)
         IN  shorter \cup {Append(q, x) : q \in shorter, x \in S}

\* The 16 bytes FileHeader::from_buf_reader reads.
EncodeHeader(h, endian) ==
    h.file_id \o to_ne_u16(h.file_version, endian)
      \o to_ne_u16(h.chunk_count, endian)
      \o to_ne_u32(h.cd_offset, endian) \o to_ne_u32(h.reserved, endian)

\* The 32 bytes ResourceChunkInfo::from_buf_reader reads, then the payload.
EncodeChunk(c, endian) ==
    c.chunk_type \o to_ne_u32(c.chunk_id, endian)
      \o <<c.compression_type, c.cipher_type>> \o to_ne_u16(c.flags, endian)
      \o to_ne_u32(c.packed_size, endian) \o to_ne_u32(c.base_size, endian)
      \o to_ne_u32(c.next_offset, endian) \o to_ne_u32(c.reserved, endian)
      \o to_ne_u32(c.crc32, endian) \o c.payload

\* The plain payload the decoder's plain branch reads: the property count,
\* the properties, the raw tail.
EncodePlain(props, tail, endian) ==
    to_ne_u32(U32(Len(props)), endian)
      \o Flatten([k \in 1..Len(props) |-> to_ne_u32(props[k], endian)]) \o tail

\* One directory entry as the entry loop of load_central_dir reads it.
EncodeEntry(en, endian) ==
    to_ne_u32(en.resource_id, endian) \o to_ne_u32(en.global_offset, endian)
      \o <<0, 0, 0, 0>> \o to_ne_u32(U32(Len(en.file_name)), endian)
      \o en.file_name

\* A chunk as synthesized: the descriptor's fields, the payload bytes on
\* disk, and what was encoded into them (props, tail; pristine is the payload
\* before any corruption of its bytes).
Chunk(type, id, comp, cipher, base, props, tail, payload) ==
    [chunk_type |-> type, chunk_id |-> id, compression_type |-> comp,
     cipher_type |-> cipher, flags |-> 0, packed_size |-> U32(Len(payload)),
     base_size |-> base, next_offset |-> <<0, 0>>, reserved |-> <<0, 0>>,
     crc32 |-> compute_crc32(payload), payload |-> payload,
     props |-> props, tail |-> tail, pristine |-> payload]

\* A well-formed chunk that is neither compressed nor encrypted.
PlainChunk(type, id, props, tail, endian) ==
    LET payload == EncodePlain(props, tail, endian)
    IN  Chunk(type, id, 0, 0, U32(Len(payload)), props, tail, payload)

\* A compressed or encrypted chunk: the payload is the transformed bytes.
PackedChunk(type, id, comp, cipher, base, blob) ==
    Chunk(type, id, comp, cipher, base, <<>>, blob, blob)

\* A well-formed directory chunk: the entry count as only property.
DirChunk(id, entries, endian) ==
    PlainChunk(<<67, 68, 73, 82>>, id, <<U32(Len(entries))>>,
               Flatten([k \in 1..Len(entries) |-> EncodeEntry(entries[k], endian)]),
               endian)

\* Byte k (from 1) of the payload xored with mask; the descriptor is kept.
FlipByte(c, k, mask) ==
    [c EXCEPT !.payload = [c.payload EXCEPT ![k] = XorBits(@, mask, 8)]]

\* The property count of a plain payload overwritten, the checksum redone.
WithPropCount(c, count, endian) ==
    LET p == to_ne_u32(count, endian) \o SubSeq(c.payload, 5, Len(c.payload))
    IN  [c EXCEPT !.payload = p, !.pristine = p, !.crc32 = compute_crc32(p)]

\* The payload replaced, with its checksum and packed size.
WithPayload(c, p) ==
    [c EXCEPT !.payload = p, !.pristine = p, !.crc32 = compute_crc32(p),
              !.packed_size = U32(Len(p))]

\* The name length of the first entry of a directory payload overwritten
\* (bytes 21..24: after prop_count, props[0], resource_id, global_offset and
\* the reserved bytes), the checksum redone.
WithNameSize(c, size, endian) ==
    LET p == SubSeq(c.payload, 1, 20) \o to_ne_u32(size, endian)
               \o SubSeq(c.payload, 25, Len(c.payload))
    IN  [c EXCEPT !.payload = p, !.pristine = p, !.crc32 = compute_crc32(p)]

RECURSIVE ChunkOffset(_, _)
\* The byte position of the descriptor of chunk j (from 1) in the file.
ChunkOffset(chunks, j) ==
    IF j = 1 THEN 16
    ELSE ChunkOffset(chunks, j - 1) + 32 + Len(chunks[j - 1].payload)

\* A container as synthesized, and its bytes.
Container(chunks, cd) ==
    [file_id |-> <<114, 114, 101, 115>>, file_version |-> 100,
     chunk_count |-> Len(chunks), cd_offset |-> cd, reserved |-> <<0, 0>>,
     chunks |-> chunks, cut |-> -1]

EncodeContainer(p, endian) ==
    LET whole == EncodeHeader(p, endian)
                   \o Flatten([k \in 1..Len(p.chunks) |-> EncodeChunk(p.chunks[k], endian)])
    IN  IF p.cut < 0 THEN whole ELSE SubSeq(whole, 1, p.cut)

\* ------------------------------------------------------ the input families

TAG_NULL == <<78, 85, 76, 76>>
TAG_RAWD == <<82, 65, 87, 68>>
TAG_TEXT == <<84, 69, 88, 84>>
TAG_CDIR == <<67, 68, 73, 82>>
\* A tag no arm of ResourceDataType::from names.
TAG_UNKNOWN == <<88, 88, 88, 88>>
Tags ==
    {TAG_NULL, TAG_RAWD, TAG_TEXT, <<73, 77, 71, 69>>, <<87, 65, 86, 69>>,
     <<86, 82, 84, 88>>, <<70, 78, 84, 71>>, <<76, 73, 78, 75>>, TAG_CDIR,
     TAG_UNKNOWN}

\* 3342539433, the id of the fixture of tests.rs; 0; an id no chunk carries;
\* the id of the directory chunk.
ID_A == <<51003, 17449>>
ID_ZERO == <<0, 0>>
ID_ABSENT == <<1, 2>>
ID_DIR == <<0, 9>>
ReqIds == {ID_A, ID_ZERO, ID_ABSENT}

\* 0x01020304: a property whose four bytes differ.
PropVals == {<<258, 772>>}
TailBytes == {65, 255}
PropSeqs == SeqsUpTo(PropVals, MaxProps)
TailSeqs == SeqsUpTo(TailBytes, MaxTail)

\* Directory entries: "a" with id 0, "ab" padded with NULs, "a\0b" (logical
\* name "a" again, another id).
Entries ==
    {[resource_id |-> ID_ZERO, global_offset |-> <<0, 16>>, file_name |-> <<97>>],
     [resource_id |-> ID_A, global_offset |-> <<0, 48>>, file_name |-> <<97, 98, 0, 0>>],
     [resource_id |-> ID_ABSENT, global_offset |-> <<0, 80>>, file_name |-> <<97, 0, 98>>]}
EntrySeqs == SeqsUpTo(Entries, MaxEntries)

\* The names get_resource_id is asked for: "a", "ab", "b", "", "a\0" and a
\* name with a char above U+00FF.
QueryNames == {<<97>>, <<97, 98>>, <<98>>, <<>>, <<97, 0>>, <<353>>}

\* The filler chunks: well-formed, one with id 0 and one with the id ID_A.
Fillers(e) ==
    {PlainChunk(TAG_TEXT, ID_ZERO, <<>>, <<66, 67>>, e),
     PlainChunk(TAG_RAWD, ID_A, <<>>, <<68>>, e)}

\* The chunk most defects are applied to: one property, one tail byte.
S1(e) == PlainChunk(TAG_RAWD, ID_A, <<<<258, 772>>>>, <<65>>, e)
\* A compressed chunk.
S4(e) == PackedChunk(TAG_RAWD, ID_A, 1, 0, <<0, 1000>>, <<7, 0, 0, 0, 9>>)
\* A directory chunk with a stated entry count and entries.
DirChunkN(n, entries, e) ==
    PlainChunk(TAG_CDIR, ID_DIR, <<n>>,
               Flatten([k \in 1..Len(entries) |-> EncodeEntry(entries[k], e)]), e)
\* The directory most defects are applied to.
D0(e) ==
    DirChunkN(U32(2),
              <<[resource_id |-> ID_ZERO, global_offset |-> <<0, 16>>, file_name |-> <<97>>],
                [resource_id |-> ID_A, global_offset |-> <<0, 48>>, file_name |-> <<97, 98, 0, 0>>]>>,
              e)

BadCrc(c) == [c EXCEPT !.crc32 = Xor32(@, <<0, 1>>)]

WFPlain(e) == {PlainChunk(TAG_RAWD, ID_A, ps, t, e) : ps \in PropSeqs, t \in TailSeqs}
Typed(e) ==
    LET good == {PlainChunk(tag, ID_A, <<>>, <<65>>, e) : tag \in Tags}
    IN  good \cup {BadCrc(c) : c \in good}
Packed(e) ==
    {PackedChunk(TAG_RAWD, ID_A, cc[1], cc[2], base, blob) :
        cc \in {<<1, 0>>, <<0, 1>>, <<10, 30>>},
        base \in {<<0, 0>>, <<0, 1000>>},
        blob \in {<<>>, <<7, 0, 0, 0, 9>>}}
Flipped(e) ==
    UNION {{FlipByte(c, k, m) : k \in 1..Len(c.payload), m \in {1, 128}} :
              c \in {S1(e), S4(e)}}
BaseDefect(e) ==
    {[c EXCEPT !.base_size = b] :
        c \in {PlainChunk(TAG_RAWD, ID_A, <<>>, <<65>>, e), S1(e)},
        b \in {<<0, 0>>, <<0, 3>>, <<0, 4>>, <<0, 7>>, <<0, 8>>, <<0, 10>>,
               <<65535, 65535>>}}
CountDefect(e) ==
    {WithPropCount(S1(e), n, e) :
        n \in {<<16384, 0>>, <<65535, 65535>>, <<0, 2>>, <<0, 0>>}}
      \cup {WithPayload(S1(e), p) : p \in {<<>>, <<1, 0, 0>>}}
PackedSizeDefect(e) ==
    {[S1(e) EXCEPT !.packed_size = n] : n \in {<<0, 8>>, <<0, 10>>, <<65535, 65535>>}}
Dirs(e) == {DirChunkN(U32(Len(es)), es, e) : es \in EntrySeqs}
DirDefect(e) ==
    {WithPropCount(D0(e), <<0, 0>>, e),
     PlainChunk(TAG_CDIR, ID_DIR, <<>>, <<>>, e),
     PackedChunk(TAG_CDIR, ID_DIR, 1, 0, D0(e).base_size, D0(e).payload),
     PackedChunk(TAG_CDIR, ID_DIR, 0, 1, D0(e).base_size, D0(e).payload),
     BadCrc(D0(e)),
     [WithPayload(D0(e), SubSeq(D0(e).payload, 1, Len(D0(e).payload) - 1))
        EXCEPT !.base_size = U32(Len(D0(e).payload) - 1)]}
      \cup {DirChunkN(n, <<CHOOSE en \in Entries : en.file_name = <<97>>>>, e) :
               n \in {<<0, 0>>, <<0, 2>>, <<65535, 65535>>}}
      \cup {WithNameSize(D0(e), sz, e) :
               sz \in {<<0, 0>>, <<0, 2>>, <<0, 200>>, <<65535, 65535>>}}

\* The chunks studied in every arrangement of fillers, and in one.
StudiedEverywhere(e) ==
    {S1(e), BadCrc(S1(e)), PlainChunk(TAG_NULL, ID_A, <<>>, <<65>>, e),
     BadCrc(PlainChunk(TAG_UNKNOWN, ID_A, <<>>, <<65>>, e)), S4(e), D0(e),
     [S1(e) EXCEPT !.packed_size = <<65535, 65535>>]}
StudiedOnce(e) ==
    WFPlain(e) \cup Typed(e) \cup Packed(e) \cup Flipped(e) \cup BaseDefect(e)
      \cup CountDefect(e) \cup PackedSizeDefect(e) \cup Dirs(e) \cup DirDefect(e)

\* The chunk sequences: fillers alone, a studied chunk among fillers.
ChunkSeqs(e) ==
    LET fs == SeqsUpTo(Fillers(e), MaxFill)
    IN  fs
        \cup {pp[1] \o <<c>> \o pp[2] :
                 c \in StudiedEverywhere(e),
                 pp \in {qq \in fs \X fs : Len(qq[1]) + Len(qq[2]) <= MaxFill}}
        \cup {pre \o <<c>> :
                 c \in StudiedOnce(e),
                 pre \in {<<>>, <<PlainChunk(TAG_TEXT, ID_ZERO, <<>>, <<66, 67>>, e)>>}}

\* The containers with a sound header: the directory offset is that of some
\* chunk (0 when there is none), measured from the end of the header.
Sound(e) ==
    UNION {{Container(cs, U32(ChunkOffset(cs, j) - 16)) :
               j \in IF cs = <<>> THEN {1} ELSE {1, Len(cs)}} : cs \in ChunkSeqs(e)}

\* The container the defects of header and length are applied to.
P0(e) ==
    LET cs == <<PlainChunk(TAG_TEXT, ID_ZERO, <<>>, <<66, 67>>, e), D0(e)>>
    IN  Container(cs, U32(ChunkOffset(cs, 2) - 16))
P0Len(e) == Len(EncodeContainer(P0(e), e))

HeaderDefect(e) ==
    {[P0(e) EXCEPT !.file_id = m] :
        m \in {<<82, 114, 101, 115>>, <<114, 82, 101, 115>>, <<114, 114, 69, 115>>,
               <<114, 114, 101, 83>>, <<0, 0, 0, 0>>}}
      \cup {[P0(e) EXCEPT !.file_version = v] : v \in {0, 99, 101, 25600}}
      \cup {[P0(e) EXCEPT !.file_id = <<82, 82, 69, 83>>, !.cut = 16]}
      \cup {[P0(e) EXCEPT !.chunk_count = n] : n \in {0, 1, 3, 65535}}
      \cup {[P0(e) EXCEPT !.cd_offset = o] :
               o \in {<<0, 1>>, U32(P0Len(e) - 16), <<0, 1000>>, <<65535, 65535>>}}
      \cup {[P0(e) EXCEPT !.cut = n] :
               n \in (0..16) \cup {17, 47, 48, 49, 50, 81, 82, P0Len(e) - 1}}

Plans(e) == Sound(e) \cup HeaderDefect(e)

\* -------------------------------------------------------------- the state

VARIABLES
    endian,      \* the byte order of the build (NativeEndian): "le" or "be"
    plan,        \* the container as synthesized (what was encoded)
    file,        \* the bytes of the file RresFile.filename names
    pc,          \* where the running call stands
    op,          \* the call: "load_resource_chunk", "load_central_dir", "none"
    rres_id,     \* the argument of load_resource_chunk
    filename,    \* the argument of get_resource_id
    pos,         \* the position of the BufReader in the file
    header,      \* the FileHeader read
    i,           \* the iterations of the scan completed
    chunk_info,  \* the ResourceChunkInfo read last
    data,        \* the packed bytes read for the chunk
    chunk_data,  \* what from_info_and_data returned to the call
    result,      \* what the call returned (or that it panicked)
    id_out,      \* what get_resource_id returned
    info_at,     \* the positions the descriptors of this call were read at
    n_data,      \* the payload bytes this call has read
    n_crc        \* the checksums this call has computed

vars ==
    <<endian, plan, file, pc, op, rres_id, filename, pos, header, i,
      chunk_info, data, chunk_data, result, id_out, info_at, n_data, n_crc>>

NoHeader ==
    [file_id |-> <<0, 0, 0, 0>>, file_version |-> 0, chunk_count |-> 0,
     cd_offset |-> <<0, 0>>, reserved |-> <<0, 0>>]
NoInfo ==
    [chunk_type |-> <<0, 0, 0, 0>>, chunk_id |-> <<0, 0>>, compression_type |-> 0,
     cipher_type |-> 0, flags |-> 0, packed_size |-> <<0, 0>>,
     base_size |-> <<0, 0>>, next_offset |-> <<0, 0>>, reserved |-> <<0, 0>>,
     crc32 |-> <<0, 0>>]
NoResult == [kind |-> "None", err |-> "none", val |-> <<>>]

\* The settings of the build and the machine the decode runs under.
Envs == [overflow_checks : BOOLEAN, big_alloc : BOOLEAN]

Min(a, b) == IF a < b THEN a ELSE b

\* Nothing is running: the locals of the last call are gone.
Fresh ==
    /\ rres_id' = <<0, 0>>
    /\ filename' = <<>>
    /\ pos' = 0
    /\ header' = NoHeader
    /\ i' = 0
    /\ chunk_info' = NoInfo
    /\ data' = <<>>
    /\ chunk_data' = NoResult
    /\ result' = NoResult
    /\ id_out' = <<0, 0>>
    /\ info_at' = <<>>
    /\ n_data' = 0
    /\ n_crc' = 0

Init ==
    /\ endian \in {"le", "be"}
    /\ plan \in Plans(endian)
    /\ file = EncodeContainer(plan, endian)
    /\ pc = "idle"
    /\ op = "none"
    /\ rres_id = <<0, 0>>
    /\ filename = <<>>
    /\ pos = 0
    /\ header = NoHeader
    /\ i = 0
    /\ chunk_info = NoInfo
    /\ data = <<>>
    /\ chunk_data = NoResult
    /\ result = NoResult
    /\ id_out = <<0, 0>>
    /\ info_at = <<>>
    /\ n_data = 0
    /\ n_crc = 0

\* The call ends with r.
Finish(r) == result' = r /\ pc' = "done"

\* ---------------------------------------------------- load_resource_chunk

\* A call of load_resource_chunk(id), by itself or with the id that
\* get_resource_id returned (tests::reads_resource_chunk); the file opens.
LoadResourceChunk ==
    /\ \/ pc = "idle" /\ rres_id' \in ReqIds
       \/ pc = "resolved" /\ rres_id' = id_out
    /\ pc' = "lrc_header"
    /\ op' = "load_resource_chunk"
    /\ filename' = <<>> /\ pos' = 0 /\ header' = NoHeader /\ i' = 0
    /\ chunk_info' = NoInfo /\ data' = <<>> /\ chunk_data' = NoResult
    /\ result' = NoResult
    /\ id_out' = <<0, 0>> /\ info_at' = <<>> /\ n_data' = 0 /\ n_crc' = 0
    /\ UNCHANGED <<endian, plan, file>>

\* Lines 409-414 (and 439-442): the header is read and verified.
ReadHeader(next) ==
    LET h == FileHeader_from_buf_reader(file, 0, endian)
    IN  IF h.kind # "Ok" THEN Finish(h) /\ UNCHANGED <<header, pos>>
        ELSE IF ~verify(h.val)
             THEN Finish(Err("HeaderVerificationFailed")) /\ UNCHANGED <<header, pos>>
        ELSE header' = h.val /\ pos' = 16 /\ pc' = next /\ UNCHANGED result

LrcHeader ==
    /\ pc = "lrc_header"
    /\ ReadHeader("lrc_scan")
    /\ UNCHANGED <<endian, plan, file, op, rres_id, filename, i, chunk_info,
                   data, id_out, info_at, n_data, n_crc, chunk_data>>

\* The mutant of the scan that skips a chunk by its base_size.
LrcIter_skip_base_size ==
    /\ pc = "lrc_scan"
    /\ i < header.chunk_count
    /\ LET r == ResourceChunkInfo_from_buf_reader(file, pos, endian)
       IN  IF r.kind # "Ok"
           THEN Finish(r) /\ UNCHANGED <<pos, i, chunk_info, info_at>>
           ELSE /\ chunk_info' = r.val
                /\ info_at' = Append(info_at, pos)
                /\ UNCHANGED result
                /\ IF r.val.chunk_id = rres_id
                   THEN pc' = "lrc_data" /\ pos' = pos + 32 /\ UNCHANGED i
                   ELSE /\ pc' = "lrc_scan"
                        /\ pos' = Min(pos + 32 + AsUsize(r.val.base_size), Huge)
                        /\ i' = i + 1
    /\ UNCHANGED <<endian, plan, file, op, rres_id, filename, header, data,
                   id_out, n_data, n_crc, chunk_data>>

\* The mutant of the scan that verifies the chunks it passes: it reads the
\* packed bytes of a chunk of another id and fails on a no-data type or a
\* checksum mismatch.
LrcIter_verify_skipped ==
    /\ pc = "lrc_scan"
    /\ i < header.chunk_count
    /\ LET r == ResourceChunkInfo_from_buf_reader(file, pos, endian)
           passed == read_exact(file, pos + 32, AsUsize(r.val.packed_size))
       IN  IF r.kind # "Ok"
           THEN Finish(r) /\ UNCHANGED <<pos, i, chunk_info, info_at>>
           ELSE /\ chunk_info' = r.val
                /\ info_at' = Append(info_at, pos)
                /\ IF r.val.chunk_id = rres_id
                   THEN /\ pc' = "lrc_data" /\ pos' = pos + 32
                        /\ UNCHANGED <<i, result>>
                   ELSE IF ResourceDataType_from(r.val.chunk_type) = "Null"
                   THEN Finish(Err("NullResource")) /\ UNCHANGED <<pos, i>>
                   ELSE IF passed.ok /\ compute_crc32(passed.val) # r.val.crc32
                   THEN Finish(Err("Crc32VerificationFailed")) /\ UNCHANGED <<pos, i>>
                   ELSE /\ pc' = "lrc_scan"
                        /\ pos' = Min(pos + 32 + AsUsize(r.val.packed_size), Huge)
                        /\ i' = i + 1
                        /\ UNCHANGED result
    /\ UNCHANGED <<endian, plan, file, op, rres_id, filename, header, data,
                   id_out, n_data, n_crc, chunk_data>>

\* One iteration of the scan (lines 416-429): a descriptor is read; a match
\* goes on to read the data, anything else is skipped with a seek.
LrcIter ==
    /\ pc = "lrc_scan"
    /\ i < header.chunk_count
    /\ LET r == ResourceChunkInfo_from_buf_reader(file, pos, endian)
       IN  IF r.kind # "Ok"
           THEN Finish(r) /\ UNCHANGED <<pos, i, chunk_info, info_at>>
           ELSE /\ chunk_info' = r.val
                /\ info_at' = Append(info_at, pos)
                /\ UNCHANGED result
                /\ IF r.val.chunk_id = rres_id
                   THEN pc' = "lrc_data" /\ pos' = pos + 32 /\ UNCHANGED i
                   ELSE /\ pc' = "lrc_scan"
                        /\ pos' = Min(pos + 32 + AsUsize(r.val.packed_size), Huge)
                        /\ i' = i + 1
    /\ UNCHANGED <<endian, plan, file, op, rres_id, filename, header, data,
                   id_out, n_data, n_crc, chunk_data>>

\* Line 432: the scan ends without a match.
LrcNotFound ==
    /\ pc = "lrc_scan"
    /\ i >= header.chunk_count
    /\ Finish(Err("ChunkNotFound"))
    /\ UNCHANGED <<endian, plan, file, op, rres_id, filename, pos, header, i,
                   chunk_info, data, id_out, info_at, n_data, n_crc,
                   chunk_data>>

\* Lines 419-420: the packed bytes are read; a short read is unwrapped.
LrcData ==
    /\ pc = "lrc_data"
    /\ \E env \in Envs :
         LET n == AsUsize(chunk_info.packed_size)
             r == read_exact(file, pos, n)
         IN  IF ~alloc_ok(n, env) THEN Finish(Panic("alloc")) /\ UNCHANGED <<pos, data, n_data>>
             ELSE IF ~r.ok THEN Finish(Panic("unwrap")) /\ UNCHANGED <<pos, data, n_data>>
             ELSE /\ data' = r.val /\ pos' = r.pos /\ n_data' = n_data + n
                  /\ pc' = "lrc_decode" /\ UNCHANGED result
    /\ UNCHANGED <<endian, plan, file, op, rres_id, filename, header, i,
                   chunk_info, id_out, info_at, n_crc, chunk_data>>

\* Lines 422-426: the decode, and the chunk returned.
LrcDecode ==
    /\ pc = "lrc_decode"
    /\ \E env \in Envs :
         LET r == from_info_and_data(chunk_info, data, endian, env)
         IN  /\ chunk_data' = r
             /\ Finish(IF r.kind = "Ok" THEN Ok([info |-> chunk_info, data |-> r.val])
                       ELSE r)
    /\ n_crc' = n_crc + 1
    /\ UNCHANGED <<endian, plan, file, op, rres_id, filename, pos, header, i,
                   chunk_info, data, id_out, info_at, n_data>>

\* ------------------------------------------------------- load_central_dir

LoadCentralDir ==
    /\ pc = "idle"
    /\ pc' = "lcd_header"
    /\ op' = "load_central_dir"
    /\ Fresh
    /\ UNCHANGED <<endian, plan, file>>

LcdHeader ==
    /\ pc = "lcd_header"
    /\ ReadHeader("lcd_info")
    /\ UNCHANGED <<endian, plan, file, op, rres_id, filename, i, chunk_info,
                   data, id_out, info_at, n_data, n_crc, chunk_data>>

\* The mutant of the seek that takes cd_offset from the start of the file.
LcdInfo_seek_from_start ==
    /\ pc = "lcd_info"
    /\ LET at == AsUsize(header.cd_offset)
           r == ResourceChunkInfo_from_buf_reader(file, at, endian)
       IN  IF r.kind # "Ok"
           THEN Finish(r) /\ UNCHANGED <<pos, chunk_info, info_at>>
           ELSE /\ chunk_info' = r.val
                /\ info_at' = Append(info_at, at)
                /\ pos' = at + 32
                /\ IF ~is_chunk_type(r.val, "Directory")
                   THEN Finish(Err("InvalidCentralDir"))
                   ELSE pc' = "lcd_data" /\ UNCHANGED result
    /\ UNCHANGED <<endian, plan, file, op, rres_id, filename, header, i,
                   data, id_out, n_data, n_crc, chunk_data>>

\* Lines 444-450: the seek by cd_offset, the descriptor, the type test.
LcdInfo ==
    /\ pc = "lcd_info"
    /\ LET at == Min(pos + AsUsize(header.cd_offset), Huge)
           r == ResourceChunkInfo_from_buf_reader(file, at, endian)
       IN  IF r.kind # "Ok"
           THEN Finish(r) /\ UNCHANGED <<pos, chunk_info, info_at>>
           ELSE /\ chunk_info' = r.val
                /\ info_at' = Append(info_at, at)
                /\ pos' = at + 32
                /\ IF ~is_chunk_type(r.val, "Directory")
                   THEN Finish(Err("InvalidCentralDir"))
                   ELSE pc' = "lcd_data" /\ UNCHANGED result
    /\ UNCHANGED <<endian, plan, file, op, rres_id, filename, header, i,
                   data, id_out, n_data, n_crc, chunk_data>>

\* Lines 452-453: the packed bytes are read; a short read is returned.
LcdData ==
    /\ pc = "lcd_data"
    /\ \E env \in Envs :
         LET n == AsUsize(chunk_info.packed_size)
             r == read_exact(file, pos, n)
         IN  IF ~alloc_ok(n, env) THEN Finish(Panic("alloc")) /\ UNCHANGED <<pos, data, n_data>>
             ELSE IF ~r.ok THEN Finish(Err("Io")) /\ UNCHANGED <<pos, data, n_data>>
             ELSE /\ data' = r.val /\ pos' = r.pos /\ n_data' = n_data + n
                  /\ pc' = "lcd_decode" /\ UNCHANGED result
    /\ UNCHANGED <<endian, plan, file, op, rres_id, filename, header, i,
                   chunk_info, id_out, info_at, n_crc, chunk_data>>

\* Lines 455-475: the decode, then the entries.
LcdDecode ==
    /\ pc = "lcd_decode"
    /\ \E env \in Envs :
         LET r == from_info_and_data(chunk_info, data, endian, env)
         IN  /\ chunk_data' = r
             /\ Finish(IF r.kind = "Ok" THEN parse_central_dir(r.val, endian, env)
                       ELSE r)
    /\ n_crc' = n_crc + 1
    /\ UNCHANGED <<endian, plan, file, op, rres_id, filename, pos, header, i,
                   chunk_info, data, id_out, info_at, n_data>>

\* CentralDir::get_resource_id on the directory load_central_dir returned.
GetResourceId ==
    /\ pc = "done"
    /\ op = "load_central_dir"
    /\ result.kind = "Ok"
    /\ filename' \in QueryNames
    /\ id_out' = get_resource_id(result.val, filename')
    /\ pc' = "resolved"
    /\ UNCHANGED <<endian, plan, file, op, rres_id, pos, header, i,
                   chunk_info, data, result, info_at, n_data, n_crc,
                   chunk_data>>

\* The caller is done with what the call returned (a panic ends the process).
Return ==
    /\ pc \in {"done", "resolved"}
    /\ result.kind # "Panic"
    /\ pc' = "idle"
    /\ op' = "none"
    /\ Fresh
    /\ UNCHANGED <<endian, plan, file>>

Next ==
    \/ LoadResourceChunk
    \/ LrcHeader
    \/ LrcIter
    \/ LrcNotFound
    \/ LrcData
    \/ LrcDecode
    \/ LoadCentralDir
    \/ LcdHeader
    \/ LcdInfo
    \/ LcdData
    \/ LcdDecode
    \/ GetResourceId
    \/ Return

Spec == Init /\ [][Next]_vars

\* ------------------------------------------------------------- the claims

\* The tags ResourceDataType::from maps to a type other than Null.
RecognizedTags == Tags \ {TAG_NULL, TAG_UNKNOWN}

\* The header as synthesized is the format's, and all 16 bytes are there.
HeaderSound ==
    /\ plan.file_id = <<114, 114, 101, 115>>
    /\ plan.file_version = 100
    /\ (plan.cut < 0 \/ plan.cut >= 16)

\* The file is whole, the header counts its chunks, and every descriptor
\* states the length its payload has on disk.
LayoutSound ==
    /\ HeaderSound
    /\ plan.cut < 0
    /\ plan.chunk_count = Len(plan.chunks)
    /\ \A k \in 1..Len(plan.chunks) :
          plan.chunks[k].packed_size = U32(Len(plan.chunks[k].payload))

\* Chunk c is a well-formed chunk, neither compressed nor encrypted, holding
\* the properties c.props and the raw tail c.tail.
WellFormedPlain(c) ==
    /\ c.chunk_type \in RecognizedTags
    /\ c.compression_type = 0 /\ c.cipher_type = 0
    /\ c.payload = EncodePlain(c.props, c.tail, endian)
    /\ c.base_size = U32(4 + (4 * Len(c.props)) + Len(c.tail))
    /\ c.crc32 = compute_crc32(c.payload)

DistinctIds ==
    \A j, k \in 1..Len(plan.chunks) :
        plan.chunks[j].chunk_id = plan.chunks[k].chunk_id => j = k

\* The chunks of the plan that carry the requested id.
Carriers == {k \in 1..Len(plan.chunks) : plan.chunks[k].chunk_id = rres_id}
FirstCarrier == CHOOSE k \in Carriers : \A j \in Carriers : k <= j

LrcDone == pc = "done" /\ op = "load_resource_chunk"
LcdDone == pc = "done" /\ op = "load_central_dir"

\* C1: in a sound container whose chunks are all well-formed plain chunks of
\* distinct ids, load_resource_chunk with the id of a chunk returns the
\* properties and the raw tail that were encoded for that chunk.
C1_RoundTrip ==
    (/\ LrcDone
     /\ LayoutSound
     /\ DistinctIds
     /\ Carriers # {}
     /\ \A k \in 1..Len(plan.chunks) : WellFormedPlain(plan.chunks[k]))
    => /\ result.kind = "Ok"
       /\ result.val.data.props = plan.chunks[FirstCarrier].props
       /\ result.val.data.prop_count = U32(Len(plan.chunks[FirstCarrier].props))
       /\ result.val.data.raw_data = plan.chunks[FirstCarrier].tail

\* A chunk with a property and a tail byte, found behind another chunk.
C1_Witness ==
    /\ LrcDone
    /\ LayoutSound
    /\ DistinctIds
    /\ \A k \in 1..Len(plan.chunks) : WellFormedPlain(plan.chunks[k])
    /\ Len(info_at) = 2
    /\ result.kind = "Ok"
    /\ result.val.data.props = <<<<258, 772>>>>
    /\ result.val.data.raw_data = <<65>>

\* The payload of chunk c is its pristine payload with one byte changed.
OneByteFlipped(c) ==
    /\ Len(c.payload) = Len(c.pristine)
    /\ Cardinality({k \in 1..Len(c.payload) : c.payload[k] # c.pristine[k]}) = 1

\* C2: when one byte of the payload of an otherwise loadable chunk is
\* flipped and its descriptor kept, load_resource_chunk with its id fails
\* with Crc32VerificationFailed; and no decode returns data for a chunk whose
\* stored checksum differs from the checksum of its packed bytes.
C2_FlipDetected ==
    /\ (/\ LrcDone
        /\ LayoutSound
        /\ Carriers # {}
        /\ plan.chunks[FirstCarrier].chunk_type \in RecognizedTags
        /\ OneByteFlipped(plan.chunks[FirstCarrier])
        /\ plan.chunks[FirstCarrier].crc32
             = compute_crc32(plan.chunks[FirstCarrier].pristine))
       => result = Err("Crc32VerificationFailed")
    /\ (/\ pc = "done"
        /\ n_crc > 0
        /\ chunk_info.crc32 # compute_crc32(data))
       => chunk_data.kind # "Ok" /\ result.kind # "Ok"

C2_Witness ==
    /\ LrcDone
    /\ LayoutSound
    /\ Carriers # {}
    /\ OneByteFlipped(plan.chunks[FirstCarrier])
    /\ plan.chunks[FirstCarrier].crc32 = compute_crc32(plan.chunks[FirstCarrier].pristine)
    /\ plan.chunks[FirstCarrier].compression_type = 0
    /\ result = Err("Crc32VerificationFailed")

\* C3: in a sound container of K chunks none of which carries the requested
\* id, load_resource_chunk reads the K descriptors, each where the one
\* before and its payload end, reads no payload, ends at the end of the
\* file and fails with ChunkNotFound.
C3_AbsentId ==
    (LrcDone /\ LayoutSound /\ Carriers = {})
    => /\ result = Err("ChunkNotFound")
       /\ Len(info_at) = Len(plan.chunks)
       /\ \A k \in 1..Len(info_at) : info_at[k] = ChunkOffset(plan.chunks, k)
       /\ i = Len(plan.chunks)
       /\ n_data = 0 /\ n_crc = 0
       /\ pos = Len(file)

\* Three chunks, one of them compressed, all passed over.
C3_Witness ==
    /\ LrcDone /\ LayoutSound /\ Carriers = {}
    /\ Len(plan.chunks) = 3
    /\ \E k \in 1..3 : plan.chunks[k].compression_type # 0
    /\ result = Err("ChunkNotFound")
    /\ Len(info_at) = 3

\* The logical name of a directory entry: its name bytes before the first NUL.
LogicalName(name) ==
    LET nuls == {k \in 1..Len(name) : name[k] = 0}
    IN  IF nuls = {} THEN name
        ELSE SubSeq(name, 1, (CHOOSE k \in nuls : \A j \in nuls : k <= j) - 1)

\* The entries of the directory in hand whose logical name is the name asked.
Matching ==
    {k \in 1..Len(result.val.entries) :
        LogicalName(result.val.entries[k].file_name) = filename}

\* The values a u32 can take.
U32Values == (0..65535) \X (0..65535)

\* C4: get_resource_id with a name no entry carries returns an explicit
\* absent signal, which is no u32 (so it differs from every id, 0 included).
C4_AbsentIsExplicit ==
    (pc = "resolved" /\ Matching = {}) => id_out \notin U32Values

\* C5: get_resource_id with a name some entry carries returns the id of the
\* first entry, in directory order, whose logical name equals the name.
C5_FirstExactMatch ==
    (pc = "resolved" /\ Matching # {})
    => id_out = result.val.entries[CHOOSE k \in Matching : \A j \in Matching : k <= j].resource_id

\* "ab" asked of a directory whose first entry is "a" and second "ab".
C5_Witness ==
    /\ pc = "resolved"
    /\ filename = <<97, 98>>
    /\ Len(result.val.entries) = 2
    /\ result.val.entries[1].file_name = <<97>>
    /\ result.val.entries[2].file_name = <<97, 98, 0, 0>>
    /\ id_out = ID_A

\* C6: with 16 bytes or more and a magic other than "rres" or a version
\* other than 100 either call fails with HeaderVerificationFailed; with fewer
\* than 16 bytes it fails with the read error; no descriptor is read.
C6_HeaderRejected ==
    /\ (/\ pc = "done"
        /\ Len(file) >= 16
        /\ (plan.file_id # <<114, 114, 101, 115>> \/ plan.file_version # 100))
       => /\ result = Err("HeaderVerificationFailed")
          /\ info_at = <<>> /\ n_data = 0 /\ n_crc = 0
    /\ (pc = "done" /\ Len(file) < 16)
       => /\ result = Err("Io")
          /\ info_at = <<>> /\ n_data = 0 /\ n_crc = 0
    /\ (pc \notin {"idle", "lrc_header", "lcd_header", "done"})
       => /\ Len(file) >= 16
          /\ plan.file_id = <<114, 114, 101, 115>> /\ plan.file_version = 100

\* load_central_dir refuses a header of version 101.
C6_Witness ==
    /\ LcdDone
    /\ plan.file_version = 101
    /\ plan.file_id = <<114, 114, 101, 115>>
    /\ Len(file) > 16
    /\ result = Err("HeaderVerificationFailed")

\* 4 + 4 * prop_count as a natural, in limbs (prop_count below 2^30).
Overhead(prop_count) ==
    <<(4 * prop_count[1]) + (((4 * prop_count[2]) + 4) \div 65536),
      ((4 * prop_count[2]) + 4) % 65536>>

\* The decode took the plain branch and read the property table of the data.
PlainBranchTaken ==
    /\ pc = "done"
    /\ n_crc > 0
    /\ chunk_info.chunk_type \in RecognizedTags
    /\ chunk_info.crc32 = compute_crc32(data)
    /\ chunk_info.compression_type = 0 /\ chunk_info.cipher_type = 0

\* C7: in the plain branch, a base_size below 4 + 4 * prop_count makes the
\* decoder fail with MalformedChunk.
C7_SubtractionGuarded ==
    (/\ PlainBranchTaken
     /\ Len(data) >= 4
     /\ LET prop_count == ne_u32(SubSeq(data, 1, 4), endian)
        IN  \/ prop_count[1] >= 16384
            \/ Lt32(chunk_info.base_size, Overhead(prop_count)))
    => chunk_data = Err("MalformedChunk")

\* C8: a chunk whose tag is "NULL" or no recognized tag is refused with
\* NullResource, whether its checksum matches or not.
C8_NullFirst ==
    (pc = "done" /\ n_crc > 0 /\ chunk_info.chunk_type \notin RecognizedTags)
    => chunk_data = Err("NullResource") /\ result = Err("NullResource")

\* An unrecognized tag with a wrong checksum.
C8_Witness ==
    /\ LrcDone /\ n_crc > 0
    /\ chunk_info.chunk_type = TAG_UNKNOWN
    /\ chunk_info.crc32 # compute_crc32(data)
    /\ result = Err("NullResource")

\* C9: for a recognized tag and a matching checksum, a compression or cipher
\* code other than 0 makes the decode return no property and the packed
\* bytes as they are, whatever base_size is; with both codes 0 the data are
\* taken as a property table and a tail.
C9_PackedPassthrough ==
    /\ (/\ pc = "done" /\ n_crc > 0
        /\ chunk_info.chunk_type \in RecognizedTags
        /\ chunk_info.crc32 = compute_crc32(data)
        /\ (chunk_info.compression_type # 0 \/ chunk_info.cipher_type # 0))
       => /\ chunk_data.kind = "Ok"
          /\ chunk_data.val.prop_count = <<0, 0>>
          /\ chunk_data.val.props = <<>>
          /\ chunk_data.val.raw_data = data
          /\ U32(Len(chunk_data.val.raw_data)) = chunk_info.packed_size
    /\ (PlainBranchTaken /\ chunk_data.kind = "Ok")
       => /\ chunk_data.val.prop_count = ne_u32(SubSeq(data, 1, 4), endian)
          /\ Len(chunk_data.val.raw_data) + 4 + (4 * Len(chunk_data.val.props))
               <= Len(data)

\* An encrypted chunk (no compression) whose base_size is not its length.
C9_Witness ==
    /\ LrcDone /\ n_crc > 0
    /\ chunk_info.compression_type = 0 /\ chunk_info.cipher_type = 1
    /\ chunk_info.base_size # chunk_info.packed_size
    /\ Len(data) = 5
    /\ chunk_data.kind = "Ok"
    /\ chunk_data.val.raw_data = data

\* C10: load_central_dir reads the descriptor 16 + cd_offset bytes into the
\* file; a tag other than "CDIR" there makes it fail with InvalidCentralDir
\* with no payload byte read and no checksum computed.
C10_DirectoryTag ==
    /\ (op = "load_central_dir" /\ info_at # <<>> /\ plan.cd_offset[1] < 16384)
       => info_at = <<16 + AsUsize(plan.cd_offset)>>
    /\ (/\ LcdDone /\ info_at # <<>>
        /\ chunk_info.chunk_type # TAG_CDIR)
       => /\ result = Err("InvalidCentralDir")
          /\ n_data = 0 /\ n_crc = 0

\* The offset leads past a first chunk to a chunk that is no directory.
C10_Witness ==
    /\ LcdDone
    /\ plan.cd_offset # <<0, 0>>
    /\ info_at = <<16 + AsUsize(plan.cd_offset)>>
    /\ chunk_info.chunk_type = TAG_RAWD
    /\ result = Err("InvalidCentralDir")

\* The scan of load_resource_chunk stopped at a descriptor the file ends in.
ShortDescriptor ==
    /\ LrcDone /\ header # NoHeader
    /\ Len(info_at) = i /\ i < header.chunk_count
    /\ pos + 32 > Len(file)

\* The scan found the id and the file ends inside the chunk's packed bytes.
ShortPayload ==
    /\ LrcDone
    /\ Len(info_at) = i + 1
    /\ pos + AsUsize(chunk_info.packed_size) > Len(file)

\* The plain branch was given fewer bytes than its property table takes.
ShortPropertyTable ==
    /\ PlainBranchTaken
    /\ \/ Len(data) < 4
       \/ LET prop_count == ne_u32(SubSeq(data, 1, 4), endian)
          IN  prop_count[1] >= 16384 \/ Len(data) < 4 + (4 * AsUsize(prop_count))

\* C11: no failure aborts the call: a file that ends inside a descriptor or
\* inside the packed bytes of the chunk asked for makes load_resource_chunk
\* return the read error (InsufficientData), and packed bytes shorter than
\* the property table make from_info_and_data return an error.
C11_FailuresReturned ==
    /\ result.kind # "Panic"
    /\ ShortDescriptor => result = Err("Io")
    /\ ShortPayload => result = Err("Io")
    /\ ShortPropertyTable => chunk_data.kind = "Err"

\* ------------------------------------------- compute_crc32 by itself

\* The bytes the longer inputs are made of, and the inputs: every sequence
\* of at most one byte, the sequences over CrcBytes up to MaxCrcLen, and
\* the ASCII digits "123456789".
CrcBytes == {0, 1, 128, 255}
CheckString == <<49, 50, 51, 52, 53, 54, 55, 56, 57>>
CrcInputs ==
    {<<>>} \cup {<<b>> : b \in Byte} \cup SeqsUpTo(CrcBytes, MaxCrcLen)
      \cup {CheckString}

CrcInit ==
    /\ endian \in {"le", "be"}
    /\ plan = Container(<<>>, <<0, 0>>)
    /\ file = <<>>
    /\ pc = "crc"
    /\ op = "compute_crc32"
    /\ rres_id = <<0, 0>>
    /\ filename = <<>>
    /\ pos = 0
    /\ header = NoHeader
    /\ i = 0
    /\ chunk_info = NoInfo
    /\ data \in CrcInputs
    /\ chunk_data = NoResult
    /\ result = NoResult
    /\ id_out = <<0, 0>>
    /\ info_at = <<>>
    /\ n_data = 0
    /\ n_crc = 0

\* compute_crc32(data) is called.
ComputeCrc32 ==
    /\ pc = "crc"
    /\ result' = Ok(compute_crc32(data))
    /\ n_crc' = n_crc + 1
    /\ pc' = "crc_done"
    /\ UNCHANGED <<endian, plan, file, op, rres_id, filename, pos, header, i,
                   chunk_info, data, chunk_data, id_out, info_at, n_data>>

\* compute_crc32 is called a second time on the same bytes.
ComputeCrc32Again ==
    /\ pc = "crc_done"
    /\ chunk_data' = Ok(compute_crc32(data))
    /\ n_crc' = n_crc + 1
    /\ pc' = "crc_twice"
    /\ UNCHANGED <<endian, plan, file, op, rres_id, filename, pos, header, i,
                   chunk_info, data, result, id_out, info_at, n_data>>

CrcNext ==
    \/ ComputeCrc32
    \/ ComputeCrc32Again

CrcSpec == CrcInit /\ [][CrcNext]_vars

\* The reflected polynomial 0xEDB88320.
POLY == <<60856, 33568>>

\* x >> 1 on u32.
Shr1(c) == <<c[1] \div 2, ((c[1] % 2) * 32768) + (c[2] \div 2)>>

\* One reflected shift/xor step of CRC-32.
ReflectedStep(c) == IF c[2] % 2 = 1 THEN Xor32(Shr1(c), POLY) ELSE Shr1(c)

RECURSIVE ReflectedSteps(_, _)
ReflectedSteps(c, n) ==
    IF n = 0 \/ c[1] < 0 THEN c ELSE ReflectedSteps(ReflectedStep(c), n - 1)

\* The table entry of index k by eight steps.
StandardEntry(k) == ReflectedSteps(<<0, k>>, 8)

RECURSIVE StandardLoop(_, _, _)
\* CRC-32 bit by bit, with no table, from byte k of dd on.
StandardLoop(dd, k, c) ==
    IF k > Len(dd) \/ c[1] < 0 THEN c
    ELSE StandardLoop(dd, k + 1, ReflectedSteps(Xor32(c, <<0, dd[k]>>), 8))

\* CRC-32/ISO-HDLC: initial value all ones, final complement.
StandardCrc32(dd) == Not32(StandardLoop(dd, 1, <<65535, 65535>>))

\* C12: compute_crc32 is the standard reflected CRC-32: the table entry of
\* every byte met is eight reflected steps of its index, every result is
\* the bit-by-bit CRC-32 of the bytes, the empty sequence gives 0, and a
\* second computation over the same bytes gives the same value.
C12_StandardCrc32 ==
    /\ op = "compute_crc32"
       => \A k \in 1..Len(data) : CRC_TABLE[data[k] + 1] = StandardEntry(data[k])
    /\ (op = "compute_crc32" /\ data = <<>>)
       => Len(CRC_TABLE) = 256 /\ \A b \in Byte : CRC_TABLE[b + 1] = StandardEntry(b)
    /\ (op = "compute_crc32" /\ pc \in {"crc_done", "crc_twice"})
       => /\ result = Ok(StandardCrc32(data))
          /\ data = <<>> => result.val = <<0, 0>>
    /\ (op = "compute_crc32" /\ pc = "crc_twice") => chunk_data = result

\* The check value of CRC-32: "123456789" gives 0xCBF43926, twice.
C12_Witness ==
    /\ op = "compute_crc32" /\ pc = "crc_twice"
    /\ data = CheckString
    /\ result = Ok(<<52212, 14630>>)
    /\ chunk_data = result

\* load_central_dir decoded a checksum-valid Directory chunk that is
\* compressed or encrypted.
PackedDirectory ==
    /\ LcdDone /\ n_crc > 0
    /\ chunk_info.chunk_type = TAG_CDIR
    /\ chunk_info.crc32 = compute_crc32(data)
    /\ (chunk_info.compression_type # 0 \/ chunk_info.cipher_type # 0)

\* load_central_dir decoded an untransformed Directory chunk of no property.
PlainDirectoryNoProps ==
    /\ LcdDone /\ PlainBranchTaken
    /\ chunk_info.chunk_type = TAG_CDIR
    /\ chunk_data.kind = "Ok"
    /\ chunk_data.val.props = <<>>

DirectoryDecoded ==
    /\ LcdDone /\ PlainBranchTaken
    /\ chunk_info.chunk_type = TAG_CDIR
    /\ chunk_data.kind = "Ok"
    /\ chunk_data.val.props # <<>>

\* The name length found in the entry that starts at offset off of the tail.
NameLengthAt(raw, off, e) == AsUsize(ne_u32(SubSeq(raw, off + 13, off + 16), e))

RECURSIVE EntryOffset(_, _, _)
\* The tail offset of entry k (from 1): the sum of 16 + name_length over the
\* entries before it.
EntryOffset(raw, k, e) ==
    IF k = 1 THEN 0
    ELSE EntryOffset(raw, k - 1, e) + 16
           + NameLengthAt(raw, EntryOffset(raw, k - 1, e), e)

RECURSIVE TailHolds(_, _, _, _)
\* The tail holds n whole entries from offset off on.
TailHolds(raw, off, n, e) ==
    \/ n = 0
    \/ /\ off + 16 <= Len(raw)
       /\ off + 16 + NameLengthAt(raw, off, e) <= Len(raw)
       /\ TailHolds(raw, off + 16 + NameLengthAt(raw, off, e), n - 1, e)

\* The directory returned carries the n entries found in the tail, in order.
EntriesAsOnDisk(dir, raw, count, e) ==
    /\ dir.entry_count = count
    /\ Len(dir.entries) = AsUsize(count)
    /\ \A k \in 1..Len(dir.entries) :
         LET off == EntryOffset(raw, k, e)
             len == NameLengthAt(raw, off, e)
         IN  /\ dir.entries[k].resource_id = ne_u32(SubSeq(raw, off + 1, off + 4), e)
             /\ dir.entries[k].global_offset = ne_u32(SubSeq(raw, off + 5, off + 8), e)
             /\ AsUsize(dir.entries[k].file_name_size) = len
             /\ dir.entries[k].file_name = SubSeq(raw, off + 17, off + 16 + len)

\* The tail of the directory decoded holds all props[0] entries.
TailWhole ==
    /\ AsUsize(chunk_data.val.props[1]) <= Len(chunk_data.val.raw_data)
    /\ TailHolds(chunk_data.val.raw_data, 0, AsUsize(chunk_data.val.props[1]), endian)

\* C14: for an untransformed, checksum-valid Directory chunk load_central_dir
\* returns the props[0] entries of the tail in on-disk order, entry k taken
\* at the sum of 16 + name_length over the entries before it; a tail that
\* ends before all of them are read makes the call return an error.
C14_EntriesInOrder ==
    DirectoryDecoded
    => IF TailWhole
       THEN /\ result.kind = "Ok"
            /\ EntriesAsOnDisk(result.val, chunk_data.val.raw_data,
                               chunk_data.val.props[1], endian)
       ELSE result.kind = "Err"

\* The part of C14 that the code keeps: the same, for an entry count and
\* name lengths below 2^30 (buffers the machine gives).
EntriesInOrderWhenAllocated ==
    (/\ DirectoryDecoded
     /\ chunk_data.val.props[1][1] < 16384
     /\ result # Panic("alloc"))
    => IF TailWhole
       THEN /\ result.kind = "Ok"
            /\ EntriesAsOnDisk(result.val, chunk_data.val.raw_data,
                               chunk_data.val.props[1], endian)
       ELSE result.kind = "Err"

\* The descriptor this call read k-th (from 1), as it stands in the file.
DescriptorAt(k) == ResourceChunkInfo_from_buf_reader(file, info_at[k], endian).val

\* The packed bytes that follow the descriptor read k-th (what the file has).
PayloadAt(k) ==
    SubSeq(file, info_at[k] + 33,
           Min(info_at[k] + 32 + AsUsize(DescriptorAt(k).packed_size), Len(file)))

RECURSIVE ScanPosition(_, _)
\* 16 + the sum of (size + packed_size) over the descriptors read before the
\* k-th (from 1), size being the length of a descriptor.
ScanPosition(k, size) ==
    IF k = 1 THEN 16
    ELSE ScanPosition(k - 1, size) + size + AsUsize(DescriptorAt(k - 1).packed_size)

\* What the claim says of the scan, but for the length of a descriptor.
FirstMatchOnly(size) ==
    op = "load_resource_chunk"
    => /\ \A k \in 1..Len(info_at) : info_at[k] = ScanPosition(k, size)
       /\ \A k \in 1..(Len(info_at) - 1) : DescriptorAt(k).chunk_id # rres_id
       /\ Len(info_at) <= i + 1
       /\ n_crc <= 1
       /\ (n_crc = 1 \/ n_data > 0 \/ pc \in {"lrc_data", "lrc_decode"})
          => /\ Len(info_at) = i + 1
             /\ chunk_info = DescriptorAt(Len(info_at))
             /\ chunk_info.chunk_id = rres_id
       /\ (pc = "done" /\ n_crc = 1)
          => /\ data = PayloadAt(Len(info_at))
             /\ \E env \in Envs :
                  chunk_data = from_info_and_data(chunk_info, data, endian, env)
             /\ result = IF chunk_data.kind = "Ok"
                         THEN Ok([info |-> chunk_info, data |-> chunk_data.val])
                         ELSE chunk_data
       /\ (pc = "done" /\ result \in {Err("NullResource"), Err("Crc32VerificationFailed")})
          => n_crc = 1

\* C15 as stated: descriptor j is read at 16 + the sum of (28 + packed_size)
\* over the descriptors before it; only the first descriptor that carries
\* the id is decoded, the chunks before it are passed unverified and no
\* descriptor after it is read.
C15_FirstMatchOnly28 == FirstMatchOnly(28)

\* C15, amended: the same with descriptors of 32 bytes: descriptor j is read
\* at 16 + the sum of (32 + packed_size) over the descriptors before it.
C15_FirstMatchOnly32 == FirstMatchOnly(32)

\* The chunk asked for is second of three: the first has a wrong checksum
\* and another id, the third carries the id too and is not read.
C15_Witness ==
    /\ LrcDone /\ result.kind = "Ok"
    /\ header.chunk_count = 3
    /\ Len(info_at) = 2
    /\ DescriptorAt(1).crc32 # compute_crc32(PayloadAt(1))
    /\ ResourceChunkInfo_from_buf_reader(
           file, info_at[2] + 32 + AsUsize(chunk_info.packed_size), endian).val.chunk_id
         = rres_id
====
